---------------------------- MODULE Spec2Model ----------------------------
(***************************************************************************)
(* A model of webhook-repo/app.py: a Flask application that receives       *)
(* GitHub webhooks at POST /webhook (handle_webhook), verifies their       *)
(* HMAC-SHA1 signature (verify_signature), formats one summary string per  *)
(* recognised event (format_timestamp and the dispatch of handle_webhook), *)
(* inserts it into a MongoDB collection, and serves the latest 50          *)
(* summaries at GET /api/events (get_events).                              *)
(*                                                                         *)
(* Conventions.                                                            *)
(*  - A Python str is a sequence of tokens; a token is a TLA+ string that  *)
(*    is either one separator character or a chunk without separators.     *)
(*    Concat gives the text.  "" is the empty sequence.                    *)
(*  - An optional value (None or a value) is a sequence of length 0 or 1.  *)
(*  - A Python evaluation that may raise yields Ret(v) or Raise(exc).      *)
(*  - A JSON value is a tagged record, see JNull, JStr, JBool, JObj.       *)
(***************************************************************************)
EXTENDS Integers, Sequences, FiniteSets, TLC

VARIABLES
    SECRET_TOKEN,   \* os.getenv("SECRET_TOKEN"): <<>> when unset, else <<text>>
    collection,     \* the MongoDB collection, in natural (insertion) order
    clock,          \* the wall clock datetime.utcnow() reads, in milliseconds
    req,            \* one record per ingestion request (handle_webhook call)
    resp            \* the response of the latest GET /api/events

vars == <<SECRET_TOKEN, collection, clock, req, resp>>

---------------------------------------------------------------------------
(* Bounds of the model *)

\* Ingestion requests that may run concurrently under Spec.
MaxReqs == 2
\* Largest value of the clock.
MaxClock == 1
\* Longest signature header, in tokens, under SpecSingle.
MaxSigLen == 3

---------------------------------------------------------------------------
(* Python values *)

Ret(v) == [ok |-> TRUE, v |-> v]
Raise(e) == [ok |-> FALSE, exc |-> e]

\* The evaluation goes on with F on r's value unless r raised.
OnOk(r, F(_)) == IF r.ok THEN F(r.v) ELSE r

None == <<>>
Some(x) == <<x>>

RECURSIVE Concat(_)
\* The text of a str given as a sequence of tokens.
Concat(s) == IF s = <<>> THEN "" ELSE Head(s) \o Concat(Tail(s))

RECURSIVE Split(_, _)
\* str.split(sep) for a one-character separator: the parts between the
\* occurrences of sep, empty parts kept.
Split(s, sep) ==
    IF s = <<>> THEN << <<>> >>
    ELSE IF Head(s) = sep THEN << <<>> >> \o Split(Tail(s), sep)
    ELSE LET rest == Split(Tail(s), sep)
         IN  << <<Head(s)>> \o rest[1] >> \o Tail(rest)

\* A token that stands for a character outside ASCII (a header byte >= 0x80).
NonAscii == "<e-acute>"

RECURSIVE IsAscii(_)
IsAscii(s) == s = <<>> \/ (Head(s) # NonAscii /\ IsAscii(Tail(s)))

---------------------------------------------------------------------------
(* verify_signature *)

\* The lowercase hex digests hexdigest() can give in this model.
DigestHex == <<"0a", "1b", "2c">>

KeyCode(key) == CASE key = "k1" -> 1 [] key = "k2" -> 2 [] OTHER -> 0

\* hmac.new(key.encode(), msg=msg, digestmod=hashlib.sha1).hexdigest():
\* a deterministic function of the key and the message (the raw body,
\* named by its index in Bodies), different under k1 and k2 for one message.
hexdigest(key, msg) == DigestHex[((2 * KeyCode(key) + msg) % Len(DigestHex)) + 1]

\* hmac.compare_digest(a, b) on two str: TypeError unless both are ASCII.
compare_digest(a, b) ==
    IF ~IsAscii(a) \/ ~IsAscii(b) THEN Raise("TypeError")
    ELSE Ret(Concat(a) = Concat(b))

\* Python truthiness of an optional text (SECRET_TOKEN: text is a string).
TokenSet(tok) == tok # None /\ tok[1] # ""
\* Python truthiness of an optional str (the header: a token sequence).
HeaderSet(h) == h # None /\ Concat(h[1]) # ""

\* A mutant of verify_signature: verification is skipped only when both the
\* secret and the header are missing.
verify_signature_both(token, payload, signature_header) ==
    IF ~TokenSet(token) /\ ~HeaderSet(signature_header) THEN Ret(TRUE)
    ELSE IF ~TokenSet(token) \/ ~HeaderSet(signature_header) THEN Ret(FALSE)
    ELSE LET parts == Split(signature_header[1], "=")
         IN  IF Len(parts) # 2 THEN Raise("ValueError")
             ELSE IF Concat(parts[1]) # "sha1" THEN Ret(FALSE)
             ELSE compare_digest(<<hexdigest(token[1], payload)>>, parts[2])

\* A mutant of verify_signature: the algorithm name is not looked at.
verify_signature_any_algorithm(token, payload, signature_header) ==
    IF ~TokenSet(token) \/ ~HeaderSet(signature_header) THEN Ret(TRUE)
    ELSE LET parts == Split(signature_header[1], "=")
         IN  IF Len(parts) # 2 THEN Raise("ValueError")
             ELSE compare_digest(<<hexdigest(token[1], payload)>>, parts[2])

verify_signature(token, payload, signature_header) ==
    IF ~TokenSet(token) \/ ~HeaderSet(signature_header) THEN Ret(TRUE)
    ELSE LET parts == Split(signature_header[1], "=")
         IN  IF Len(parts) # 2 THEN Raise("ValueError")
             ELSE LET sha_name == parts[1]
                      signature == parts[2]
                  IN  IF Concat(sha_name) # "sha1" THEN Ret(FALSE)
                      ELSE compare_digest(<<hexdigest(token[1], payload)>>, signature)

---------------------------------------------------------------------------
(* format_timestamp *)

Digits == <<"0", "1", "2", "3", "4", "5", "6", "7", "8", "9">>

IsDigit(c) == \E i \in 1..10 : Digits[i] = c

DigitVal(c) == (CHOOSE i \in 1..10 : Digits[i] = c) - 1

RECURSIVE DigitRun(_, _)
\* The number of consecutive digits of s from position p on.
DigitRun(s, p) ==
    IF p > Len(s) \/ ~IsDigit(s[p]) THEN 0 ELSE 1 + DigitRun(s, p + 1)

RECURSIVE NumAt(_, _, _)
\* The value of the k digits of s that start at position p.
NumAt(s, p, k) ==
    IF k = 0 THEN 0 ELSE 10 * NumAt(s, p, k - 1) + DigitVal(s[p + k - 1])

\* A literal of the format at position p, matched ignoring case.
LitAt(s, p, cs) == p <= Len(s) /\ s[p] \in cs

\* A numeric directive at position p: k digits, all up to the next literal.
NumField(s, p, lens, lo, hi) ==
    LET k == DigitRun(s, p)
        n == NumAt(s, p, k)
    IN  [ok |-> k \in lens /\ n >= lo /\ n <= hi, val |-> n, next |-> p + k]

\* %d also takes a space followed by one digit 1-9.
DayField(s, p) ==
    IF LitAt(s, p, {" "})
    THEN LET f == NumField(s, p + 1, {1}, 1, 9) IN f
    ELSE NumField(s, p, {1, 2}, 1, 31)

IsLeap(y) == (y % 4 = 0 /\ y % 100 # 0) \/ y % 400 = 0

DaysInMonth(y, m) ==
    IF m = 2 THEN (IF IsLeap(y) THEN 29 ELSE 28)
    ELSE IF m \in {4, 6, 9, 11} THEN 30 ELSE 31

\* The format "%Y-%m-%dT%H:%M:%SZ", directive by directive.
Format == <<"%Y", "-", "%m", "-", "%d", "T", "%H", ":", "%M", ":", "%S", "Z">>

\* The characters a literal of the format matches (the match ignores case).
LitChars(c) == CASE c = "T" -> {"T", "t"} [] c = "Z" -> {"Z", "z"} [] OTHER -> {c}

\* One directive or literal of the format matched at position p of s, by
\* the directives' regular expressions: %Y is four digits, the others one
\* or two digits in their range.
Directive(s, p, dir) ==
    CASE dir = "%Y" -> NumField(s, p, {4}, 0, 9999)
      [] dir = "%m" -> NumField(s, p, {1, 2}, 1, 12)
      [] dir = "%d" -> DayField(s, p)
      [] dir = "%H" -> NumField(s, p, {1, 2}, 0, 23)
      [] dir = "%M" -> NumField(s, p, {1, 2}, 0, 59)
      [] dir = "%S" -> NumField(s, p, {1, 2}, 0, 61)
      [] OTHER -> [ok |-> LitAt(s, p, LitChars(dir)), val |-> 0, next |-> p + 1]

PrependVal(v, r) == IF r.ok THEN Ret(<<v>> \o r.v) ELSE r

RECURSIVE Match(_, _, _)
RECURSIVE MatchRest(_, _, _)
\* The format from its i-th element on matched at position p of s, up to
\* the end of s: the values of the elements, or ValueError.
Match(s, p, i) ==
    IF i > Len(Format)
    THEN (IF p = Len(s) + 1 THEN Ret(<<>>) ELSE Raise("ValueError"))
    ELSE MatchRest(s, i, Directive(s, p, Format[i]))

MatchRest(s, i, f) ==
    IF ~f.ok THEN Raise("ValueError")
    ELSE PrependVal(f.val, Match(s, f.next, i + 1))

\* datetime(...) on the matched values: its own range checks.
MakeDatetime(v) ==
    IF v[1] >= 1 /\ v[11] <= 59 /\ v[5] <= DaysInMonth(v[1], v[3])
    THEN Ret([year |-> v[1], month |-> v[3], day |-> v[5],
              hour |-> v[7], minute |-> v[9], second |-> v[11]])
    ELSE Raise("ValueError")

\* datetime.strptime(text, "%Y-%m-%dT%H:%M:%SZ") on the characters s.
strptime(s) == OnOk(Match(s, 1, 1), MakeDatetime)

MonthName == <<"January", "February", "March", "April", "May", "June", "July",
               "August", "September", "October", "November", "December">>

Pad2(n) == IF n < 10 THEN "0" \o ToString(n) ELSE ToString(n)

\* A mutant of OrdinalSuffix: without the exception of 11, 12 and 13.
OrdinalSuffix_by_last_digit(day) ==
    CASE day % 10 = 1 -> "st"
      [] day % 10 = 2 -> "nd"
      [] day % 10 = 3 -> "rd"
      [] OTHER -> "th"

\* The ordinal suffix of a day of the month.
OrdinalSuffix(day) ==
    IF 11 <= day /\ day <= 13 THEN "th"
    ELSE CASE day % 10 = 1 -> "st"
           [] day % 10 = 2 -> "nd"
           [] day % 10 = 3 -> "rd"
           [] OTHER -> "th"

\* A mutant of TimeText: the 24-hour clock under the AM/PM marker.
TimeText_24(dt) ==
    Pad2(dt.hour) \o ":" \o Pad2(dt.minute)
    \o " " \o (IF dt.hour < 12 THEN "AM" ELSE "PM") \o " UTC"

\* "%-d{suffix} %B %Y": the day without padding and its suffix, the full
\* month name, the year.
DateText(dt, suffix) ==
    ToString(dt.day) \o suffix \o " " \o MonthName[dt.month] \o " "
    \o ToString(dt.year)

\* "%I:%M %p UTC": the hour of the 12-hour clock and the minute, two digits
\* each, and AM or PM.
TimeText(dt) ==
    LET h12 == IF dt.hour % 12 = 0 THEN 12 ELSE dt.hour % 12
    IN  Pad2(h12) \o ":" \o Pad2(dt.minute)
        \o " " \o (IF dt.hour < 12 THEN "AM" ELSE "PM") \o " UTC"

\* dt.strftime("%-d{suffix} %B %Y - %I:%M %p UTC")
strftime(dt, suffix) == DateText(dt, suffix) \o " - " \o TimeText(dt)

\* Lines 58-64: the suffix of the day and the formatted text.
FormatDatetime(dt) == Ret(strftime(dt, OrdinalSuffix(dt.day)))

\* format_timestamp(iso_ts) on a JSON value: strptime raises TypeError on
\* anything but a str.
format_timestamp(iso_ts) ==
    IF iso_ts.t # "str" THEN Raise("TypeError")
    ELSE OnOk(strptime(iso_ts.v), FormatDatetime)

---------------------------------------------------------------------------
(* JSON payloads *)

JNull == [t |-> "null"]
JStr(s) == [t |-> "str", v |-> s]
JBool(b) == [t |-> "bool", v |-> b]
\* f is a record (a function on its keys); <<>> is the empty object.
JObj(f) == [t |-> "obj", v |-> f]

\* x[key] in Python: KeyError on a dict without the key, TypeError on None,
\* a str or a bool.
GetItem(x, key) ==
    IF x.t = "obj"
    THEN IF key \in DOMAIN x.v THEN Ret(x.v[key]) ELSE Raise("KeyError")
    ELSE Raise("TypeError")

RECURSIVE GetPath(_, _)
RECURSIVE GetRest(_, _)
\* x[k1][k2]..., left to right.
GetPath(x, path) ==
    IF path = <<>> THEN Ret(x) ELSE GetRest(GetItem(x, Head(path)), Tail(path))

GetRest(r, path) == IF r.ok THEN GetPath(r.v, path) ELSE r

\* d.get(key) on a dict: None when the key is missing.
DictGet(x, key) == IF key \in DOMAIN x.v THEN x.v[key] ELSE JNull

\* Python truthiness of a JSON value.
Truthy(x) ==
    CASE x.t = "null" -> FALSE
      [] x.t = "bool" -> x.v
      [] x.t = "str"  -> Concat(x.v) # ""
      [] x.t = "obj"  -> DOMAIN x.v # {}

\* x == "text" in Python.
StrEq(x, text) == x.t = "str" /\ Concat(x.v) = text

\* The text an f-string gives for a JSON value (a dict only when empty).
PyStr(x) ==
    CASE x.t = "null" -> "None"
      [] x.t = "bool" -> (IF x.v THEN "True" ELSE "False")
      [] x.t = "str"  -> Concat(x.v)
      [] x.t = "obj"  -> "{}"

\* payload["ref"].split("/")[-1]: AttributeError on anything but a str.
LastSegment(x) ==
    IF x.t # "str" THEN Raise("AttributeError")
    ELSE LET parts == Split(x.v, "/") IN Ret(Concat(parts[Len(parts)]))

---------------------------------------------------------------------------
(* The dispatch of handle_webhook *)

Formatted(s) == [kind |-> "formatted", formatted |-> s]
Ignored == [kind |-> "ignored"]
Raised(e) == [kind |-> "raise", exc |-> e]

Quoted(s) == "\"" \o s \o "\""

\* Lines 114-116: the summary of a push, once its fields are read.
PushSummary(author, to_branch, when) ==
    IF ~author.ok THEN Raised(author.exc)
    ELSE IF ~to_branch.ok THEN Raised(to_branch.exc)
    ELSE IF ~when.ok THEN Raised(when.exc)
    ELSE Formatted(Quoted(PyStr(author.v)) \o " pushed to "
                   \o Quoted(to_branch.v) \o " on " \o when.v)

\* Lines 110-116: the "push" branch.
push_branch(payload) ==
    PushSummary(GetPath(payload, <<"pusher", "name">>),
                OnOk(GetItem(payload, "ref"), LastSegment),
                OnOk(GetPath(payload, <<"head_commit", "timestamp">>),
                     format_timestamp))

\* Lines 126-131: action == "opened".
opened_branch(author, from_branch, to_branch, when) ==
    IF ~when.ok THEN Raised(when.exc)
    ELSE Formatted(Quoted(PyStr(author)) \o " submitted a pull request from "
                   \o Quoted(PyStr(from_branch)) \o " to "
                   \o Quoted(PyStr(to_branch)) \o " on " \o when.v)

\* Lines 132-137: action == "closed" and pr.get("merged").
merged_branch(author, from_branch, to_branch, when) ==
    IF ~when.ok THEN Raised(when.exc)
    ELSE Formatted(Quoted(PyStr(author)) \o " merged branch "
                   \o Quoted(PyStr(from_branch)) \o " to "
                   \o Quoted(PyStr(to_branch)) \o " on " \o when.v)

\* A mutant of PullRequestAction: the merged branch takes created_at.
PullRequestAction_created_at(action, pr, author, from_branch, to_branch) ==
    IF ~author.ok THEN Raised(author.exc)
    ELSE IF ~from_branch.ok THEN Raised(from_branch.exc)
    ELSE IF ~to_branch.ok THEN Raised(to_branch.exc)
    ELSE IF StrEq(action, "opened")
         THEN opened_branch(author.v, from_branch.v, to_branch.v,
                            OnOk(GetItem(pr, "created_at"), format_timestamp))
    ELSE IF StrEq(action, "closed") /\ Truthy(DictGet(pr, "merged"))
         THEN merged_branch(author.v, from_branch.v, to_branch.v,
                            OnOk(GetItem(pr, "created_at"), format_timestamp))
    ELSE Ignored

\* Lines 122-140: the author and the branches are read, then the action
\* is looked at.
PullRequestAction(action, pr, author, from_branch, to_branch) ==
    IF ~author.ok THEN Raised(author.exc)
    ELSE IF ~from_branch.ok THEN Raised(from_branch.exc)
    ELSE IF ~to_branch.ok THEN Raised(to_branch.exc)
    ELSE IF StrEq(action, "opened")
         THEN opened_branch(author.v, from_branch.v, to_branch.v,
                            OnOk(GetItem(pr, "created_at"), format_timestamp))
    ELSE IF StrEq(action, "closed") /\ Truthy(DictGet(pr, "merged"))
         THEN merged_branch(author.v, from_branch.v, to_branch.v,
                            OnOk(GetItem(pr, "merged_at"), format_timestamp))
    ELSE Ignored

\* Lines 120-121: payload["action"] and payload["pull_request"].
PullRequestFields(action, pr) ==
    IF ~action.ok THEN Raised(action.exc)
    ELSE IF ~pr.ok THEN Raised(pr.exc)
    ELSE PullRequestAction(action.v, pr.v,
                           GetPath(pr.v, <<"user", "login">>),
                           GetPath(pr.v, <<"head", "ref">>),
                           GetPath(pr.v, <<"base", "ref">>))

\* Lines 119-140: the "pull_request" branch.  The five fields are read
\* before the action is looked at.
pull_request_branch(payload) ==
    PullRequestFields(GetItem(payload, "action"), GetItem(payload, "pull_request"))

\* Lines 110-143: what handle_webhook makes of the event type and payload.
dispatch(event_type, payload) ==
    IF event_type = Some("push") THEN push_branch(payload)
    ELSE IF event_type = Some("pull_request") THEN pull_request_branch(payload)
    ELSE Ignored

---------------------------------------------------------------------------
(* The requests' inputs *)

Chars2(n) == <<Digits[(n \div 10) + 1], Digits[(n % 10) + 1]>>
Chars4(n) == Chars2(n \div 100) \o Chars2(n % 100)

\* The characters of YYYY-MM-DDTHH:MM:SSZ.
IsoZ(y, mo, d, h, mi, sec) ==
    Chars4(y) \o <<"-">> \o Chars2(mo) \o <<"-">> \o Chars2(d) \o <<"T">>
    \o Chars2(h) \o <<":">> \o Chars2(mi) \o <<":">> \o Chars2(sec) \o <<"Z">>

\* "2021-4-1t21:30:0z": not of the form YYYY-MM-DDTHH:MM:SSZ.
LooseTs == <<"2", "0", "2", "1", "-", "4", "-", "1", "t", "2", "1", ":",
             "3", "0", ":", "0", "z">>
\* "2021-04-01": a date without a time.
DateOnlyTs == <<"2", "0", "2", "1", "-", "0", "4", "-", "0", "1">>

PushPayload(name, ref, head_commit) ==
    JObj([pusher |-> JObj([name |-> name]), ref |-> ref,
          head_commit |-> head_commit])

Commit(ts) == JObj([timestamp |-> JStr(ts)])

MainRef == JStr(<<"refs", "/", "heads", "/", "main">>)

PullRequest(login, merged, merged_at) ==
    JObj([user |-> JObj([login |-> login]),
          head |-> JObj([ref |-> JStr(<<"feature">>)]),
          base |-> JObj([ref |-> JStr(<<"main">>)]),
          created_at |-> JStr(IsoZ(2021, 4, 11, 0, 5, 0)),
          merged |-> merged, merged_at |-> merged_at])

PullRequestPayload(action, pr) ==
    JObj([action |-> JStr(<<action>>), pull_request |-> pr])

Json(x) == [valid |-> TRUE, json |-> x]

\* The request bodies written out one by one.
FixedBodies == <<
    \* 1: a push
    Json(PushPayload(JStr(<<"alice">>), MainRef, Commit(IsoZ(2021, 4, 1, 21, 30, 0)))),
    \* 2: a pull request, opened
    Json(PullRequestPayload("opened", PullRequest(JStr(<<"bob">>), JBool(FALSE), JNull))),
    \* 3: a pull request, closed and merged
    Json(PullRequestPayload("closed",
            PullRequest(JStr(<<"bob">>), JBool(TRUE), JStr(IsoZ(2021, 4, 22, 13, 0, 0))))),
    \* 4: a pull request, closed without merge
    Json(PullRequestPayload("closed", PullRequest(JStr(<<"bob">>), JBool(FALSE), JNull))),
    \* 5: a pull request, reopened, whose pull_request has no "user"
    Json(PullRequestPayload("reopened", JObj([merged |-> JBool(FALSE)]))),
    \* 6: a push that deletes a branch: head_commit is null
    Json(PushPayload(JStr(<<"alice">>), MainRef, JNull)),
    \* 7: the empty object
    Json(JObj(<<>>)),
    \* 8: a push whose pusher.name is null
    Json(PushPayload(JNull, MainRef, Commit(IsoZ(2021, 4, 1, 21, 30, 0)))),
    \* 9: a push whose timestamp is "2021-4-1t21:30:0z"
    Json(PushPayload(JStr(<<"alice">>), MainRef, Commit(LooseTs))),
    \* 10: a push whose timestamp is "2021-04-01"
    Json(PushPayload(JStr(<<"alice">>), MainRef, Commit(DateOnlyTs))),
    \* 11: the JSON document null
    Json(JNull),
    \* 12: a body that is not JSON
    [valid |-> FALSE, json |-> JNull],
    \* 13: a push to refs/heads/feature/x that also carries the action and
    \* the pull_request of a pull request
    Json(JObj([pusher |-> JObj([name |-> JStr(<<"alice">>)]),
               ref |-> JStr(<<"refs", "/", "heads", "/", "feature", "/", "x">>),
               head_commit |-> Commit(IsoZ(2021, 4, 1, 21, 30, 0)),
               action |-> JStr(<<"opened">>),
               pull_request |-> PullRequest(JStr(<<"bob">>), JBool(FALSE), JNull)]))
>>

\* The days of a month, the hours of a day and the minutes of an hour.
Days == 1..31
Hours == 0..23
Minutes == 0..59

\* The years and months of the dated pushes: a common and a leap year;
\* months of 31, 28 or 29, and 30 days.
DateYears == <<2021, 2024>>
DateMonths == <<1, 2, 4>>
\* Their times of day: the first and the last minute of the day.
DateTimes == <<[h |-> 0, mi |-> 0], [h |-> 23, mi |-> 59]>>

\* The timestamps of the dated pushes: every day of DateMonths in DateYears
\* at DateTimes (whether the day exists in the month or not).
DateCases ==
    [i \in 1..(Cardinality(Days) * Len(DateMonths) * Len(DateYears) * Len(DateTimes)) |->
        LET k == i - 1
            d == (k % Cardinality(Days)) + 1
            k1 == k \div Cardinality(Days)
            mo == DateMonths[(k1 % Len(DateMonths)) + 1]
            k2 == k1 \div Len(DateMonths)
            y == DateYears[(k2 % Len(DateYears)) + 1]
            t == DateTimes[(k2 \div Len(DateYears)) + 1]
        IN  IsoZ(y, mo, d, t.h, t.mi, 0)]

\* The timestamps of the timed pushes: every minute of the first and of
\* the last day of January 2021.
TimeCases ==
    [i \in 1..(2 * Cardinality(Hours) * Cardinality(Minutes)) |->
        LET k == i - 1
            mi == k % Cardinality(Minutes)
            k1 == k \div Cardinality(Minutes)
            h == k1 % Cardinality(Hours)
            d == IF k1 \div Cardinality(Hours) = 0 THEN 1 ELSE 31
        IN  IsoZ(2021, 1, d, h, mi, 0)]

Timestamps == DateCases \o TimeCases

\* The request bodies of the model; a request's raw body (request.data) is
\* an index of this catalogue: the fixed bodies, then one push of alice to
\* main for each of Timestamps.
Bodies ==
    FixedBodies \o
    [i \in 1..Len(Timestamps) |->
        Json(PushPayload(JStr(<<"alice">>), MainRef, Commit(Timestamps[i])))]

AllBodies == 1..Len(FixedBodies)
\* The bodies of the specification of format_timestamp.
TimestampBodies == (Len(FixedBodies) + 1)..Len(Bodies)
\* The bodies of the concurrent specification.
CoreBodies == {1, 2, 4}

\* request.get_json() on a body sent as application/json: the parsed
\* document, or werkzeug's BadRequest.
get_json(data) ==
    IF Bodies[data].valid THEN Ret(Bodies[data].json) ELSE Raise("BadRequest")

\* The values of the X-GitHub-Event header.
AllEvents == {None, Some("push"), Some("pull_request"), Some("issues")}
CoreEvents == {Some("push"), Some("pull_request")}

\* The values of SECRET_TOKEN.
AllSecrets == {None, Some(""), Some("k1"), Some("k2")}
CoreSecrets == {Some("k1")}

SigTokens == {"sha1", "sha256", "=", "0a", "1b", NonAscii}

\* The values of the X-Hub-Signature header: absent, or any text of at
\* most MaxSigLen tokens.
AllSignatures ==
    {None} \cup {Some(h) : h \in UNION {[1..n -> SigTokens] : n \in 0..MaxSigLen}}
CoreSignatures == {None, Some(<<"sha1", "=", "ff">>)}

\* The HTTP status Flask answers an exception with.
StatusOf(exc) == IF exc = "BadRequest" THEN 400 ELSE 500

---------------------------------------------------------------------------
(* The event store: the MongoDB collection *)

\* The limit of get_events.
QueryLimit == 50

\* A mutant of insert_one: the document is written twice.
insert_one_twice(coll, doc) ==
    Append(Append(coll, [_id |-> Len(coll) + 1, inserted_at |-> doc.inserted_at,
                         formatted |-> doc.formatted]),
           [_id |-> Len(coll) + 2, inserted_at |-> doc.inserted_at,
            formatted |-> doc.formatted])

\* A mutant of insert_one: the document replaces the oldest one once the
\* collection holds a document (a capped collection of size one).
insert_one_capped(coll, doc) ==
    <<[_id |-> Len(coll) + 1, inserted_at |-> doc.inserted_at,
       formatted |-> doc.formatted]>>

\* collection.insert_one(doc): the document, given its _id, is added at
\* the end of the collection's natural order.
insert_one(coll, doc) ==
    Append(coll, [_id |-> Len(coll) + 1, inserted_at |-> doc.inserted_at,
                  formatted |-> doc.formatted])

\* The orders sort("inserted_at", -1) may give the documents in: newest
\* inserted_at first; MongoDB leaves the order of equal keys open.
SortOrders(coll) ==
    {p \in [1..Len(coll) -> 1..Len(coll)] :
        /\ \A i, j \in 1..Len(coll) : i # j => p[i] # p[j]
        /\ \A i, j \in 1..Len(coll) :
              i < j => coll[p[i]].inserted_at >= coll[p[j]].inserted_at}

Min(a, b) == IF a < b THEN a ELSE b

\* A mutant of find_sort_limit: a dirty read, the query also sees the
\* document the first request is preparing.
find_sort_limit_dirty(coll, n) ==
    LET c == IF req[1].doc = None THEN coll
             ELSE Append(coll, [_id |-> 0,
                                inserted_at |-> req[1].doc[1].inserted_at,
                                formatted |-> req[1].doc[1].formatted])
    IN  {[i \in 1..Min(n, Len(c)) |-> c[p[i]]] : p \in SortOrders(c)}

\* collection.find().sort("inserted_at", -1).limit(n): the possible results.
find_sort_limit(coll, n) ==
    {[i \in 1..Min(n, Len(coll)) |-> coll[p[i]]] : p \in SortOrders(coll)}

\* [doc["formatted"] for doc in docs]
FormattedOf(docs) == [i \in 1..Len(docs) |-> docs[i].formatted]

---------------------------------------------------------------------------
(* The state machine *)

Reqs == 1..MaxReqs

NoResponse == [status |-> 0, docs |-> <<>>, events |-> <<>>]

NewRequest ==
    [pc |-> "verify", signature |-> None, data |-> 0, event_type |-> None,
     doc |-> None, status |-> 0, exc |-> "", at |-> ""]

\* A mutant of Respond: a request answered 500 stays at its step and is
\* run again.
Respond_retry(q, st, exc) ==
    IF st = 500
    THEN [q EXCEPT !.status = st, !.exc = exc, !.at = q.pc]
    ELSE [q EXCEPT !.pc = "done", !.status = st, !.exc = exc, !.at = q.pc,
                   !.doc = None]

\* The request ends with the HTTP status st, at the step named by its pc;
\* the handler's local `doc` is gone with it.
Respond(q, st, exc) ==
    [q EXCEPT !.pc = "done", !.status = st, !.exc = exc, !.at = q.pc,
              !.doc = None]

\* Lines 97-98: abort(403) on a signature that does not verify.
AfterVerify(q, v) ==
    IF ~v.ok THEN Respond(q, StatusOf(v.exc), v.exc)
    ELSE IF ~v.v THEN Respond(q, 403, "Forbidden")
    ELSE [q EXCEPT !.pc = "parse"]

\* Lines 94-98: the request arrives with its signature header and raw
\* body, and is verified.  Requests are numbered in their order of arrival.
Receive(r, signatures, bodies) ==
    /\ req[r].pc = "verify"
    /\ r > 1 => req[r - 1].pc # "verify"
    /\ \E sig \in signatures, data \in bodies :
          req' = [req EXCEPT ![r] =
                    AfterVerify([req[r] EXCEPT !.signature = sig, !.data = data],
                                verify_signature(SECRET_TOKEN, data, sig))]
    /\ UNCHANGED <<SECRET_TOKEN, collection, clock, resp>>

\* Lines 101-107: the parsed body, and the document with
\* inserted_at = datetime.utcnow() and an empty formatted.
AfterParse(q, payload, now) ==
    IF ~payload.ok THEN Respond(q, StatusOf(payload.exc), payload.exc)
    ELSE [q EXCEPT !.pc = "dispatch",
                   !.doc = Some([inserted_at |-> now, formatted |-> ""])]

\* Lines 100-107: the event type is read, the body parsed, and the
\* document prepared.  The local `signature` is dead from here on.
Parse(r, events) ==
    /\ req[r].pc = "parse"
    /\ \E ev \in events :
          req' = [req EXCEPT ![r] =
                    AfterParse([req[r] EXCEPT !.signature = None, !.event_type = ev],
                               get_json(req[r].data), clock)]
    /\ UNCHANGED <<SECRET_TOKEN, collection, clock, resp>>

\* A mutant of AfterDispatch: an ignored event goes on to the insert with
\* the document as it was prepared.
AfterDispatch_store_ignored(q, d) ==
    IF d.kind = "raise" THEN Respond(q, StatusOf(d.exc), d.exc)
    ELSE IF d.kind = "ignored" THEN [q EXCEPT !.pc = "insert"]
    ELSE [q EXCEPT !.pc = "insert",
                   !.doc = Some([inserted_at |-> q.doc[1].inserted_at,
                                 formatted |-> d.formatted])]

\* Lines 114, 128, 134, 140, 143: the summary is put in the document, or
\* the request answers 200 "ignored".
AfterDispatch(q, d) ==
    IF d.kind = "raise" THEN Respond(q, StatusOf(d.exc), d.exc)
    ELSE IF d.kind = "ignored" THEN Respond(q, 200, "")
    ELSE [q EXCEPT !.pc = "insert",
                   !.doc = Some([inserted_at |-> q.doc[1].inserted_at,
                                 formatted |-> d.formatted])]

\* Lines 109-143: the dispatch on the event type.
Dispatch(r) ==
    /\ req[r].pc = "dispatch"
    /\ req' = [req EXCEPT ![r] =
                 AfterDispatch(req[r], dispatch(req[r].event_type,
                                                get_json(req[r].data).v))]
    /\ UNCHANGED <<SECRET_TOKEN, collection, clock, resp>>

\* Lines 145-147: the document is inserted and the request answers 201.
InsertOne(r) ==
    /\ req[r].pc = "insert"
    /\ collection' = insert_one(collection, req[r].doc[1])
    /\ req' = [req EXCEPT ![r] = Respond(req[r], 201, "")]
    /\ UNCHANGED <<SECRET_TOKEN, clock, resp>>

\* A mutant of InsertOneFails: the failed insert leaves the document behind
\* without its summary.
InsertOneFails_partial(r) ==
    /\ req[r].pc = "insert"
    /\ collection' = insert_one(collection,
                                [inserted_at |-> req[r].doc[1].inserted_at,
                                 formatted |-> ""])
    /\ req' = [req EXCEPT ![r] = Respond(req[r], StatusOf("PyMongoError"), "PyMongoError")]
    /\ UNCHANGED <<SECRET_TOKEN, clock, resp>>

\* Line 146, the store unavailable: insert_one raises and nothing is written.
InsertOneFails(r) ==
    /\ req[r].pc = "insert"
    /\ req' = [req EXCEPT ![r] = Respond(req[r], StatusOf("PyMongoError"), "PyMongoError")]
    /\ UNCHANGED <<SECRET_TOKEN, collection, clock, resp>>

\* Lines 73-82: GET /api/events.
GetEvents ==
    /\ \E docs \in find_sort_limit(collection, QueryLimit) :
          resp' = [status |-> 200, docs |-> docs, events |-> FormattedOf(docs)]
    /\ UNCHANGED <<SECRET_TOKEN, collection, clock, req>>

\* Lines 79-81, the store unavailable: the cursor raises.
GetEventsFails ==
    /\ resp' = [status |-> StatusOf("PyMongoError"), docs |-> <<>>, events |-> <<>>]
    /\ UNCHANGED <<SECRET_TOKEN, collection, clock, req>>

\* Time passes: the clock datetime.utcnow() reads moves on.
Tick ==
    /\ clock < MaxClock
    /\ clock' = clock + 1
    /\ UNCHANGED <<SECRET_TOKEN, collection, req, resp>>

InitWith(secrets) ==
    /\ SECRET_TOKEN \in secrets
    /\ collection = <<>>
    /\ clock = 0
    /\ req = [r \in Reqs |-> NewRequest]
    /\ resp = NoResponse

\* Concurrent requests on a small set of inputs.
Init == InitWith(CoreSecrets)

Next ==
    \/ \E r \in Reqs : Receive(r, CoreSignatures, CoreBodies)
    \/ \E r \in Reqs : Parse(r, CoreEvents)
    \/ \E r \in Reqs : Dispatch(r)
    \/ \E r \in Reqs : InsertOne(r)
    \/ \E r \in Reqs : InsertOneFails(r)
    \/ GetEvents
    \/ GetEventsFails
    \/ Tick

Spec == Init /\ [][Next]_vars

\* Weak fairness of Dispatch(r), WF_vars(Dispatch(r)), with its enabling
\* condition written out: Dispatch(r) is enabled, and changes req, exactly
\* when r is at "dispatch".
DispatchFair(r) ==
    []<>(req[r].pc # "dispatch") \/ []<><<Dispatch(r)>>_vars

\* Each request is served by a thread of its own that takes no lock of the
\* application: a handler that can take its next step takes it, and a call
\* of the store returns or raises.
Fairness ==
    \A r \in Reqs :
        /\ WF_vars(Parse(r, CoreEvents))
        /\ DispatchFair(r)
        /\ WF_vars(InsertOne(r) \/ InsertOneFails(r))

\* The requests and the queries of Next while the clock stands still: no
\* step of a handler waits for the clock.
NextFair ==
    \/ \E r \in Reqs : Receive(r, CoreSignatures, CoreBodies)
    \/ \E r \in Reqs : Parse(r, CoreEvents)
    \/ \E r \in Reqs : Dispatch(r)
    \/ \E r \in Reqs : InsertOne(r)
    \/ \E r \in Reqs : InsertOneFails(r)
    \/ GetEvents
    \/ GetEventsFails

SpecFair == Init /\ [][NextFair]_vars /\ Fairness

\* One request on every input of the model.
InitSingle == InitWith(AllSecrets)

NextSingle ==
    \/ Receive(1, AllSignatures, AllBodies)
    \/ Parse(1, AllEvents)
    \/ Dispatch(1)
    \/ InsertOne(1)
    \/ InsertOneFails(1)

SpecSingle == InitSingle /\ [][NextSingle]_vars

\* One push without signature for every timestamp of Timestamps.
NextFormat ==
    \/ Receive(1, {None}, TimestampBodies)
    \/ Parse(1, {Some("push")})
    \/ Dispatch(1)
    \/ InsertOne(1)
    \/ InsertOneFails(1)

SpecFormat == Init /\ [][NextFormat]_vars

---------------------------------------------------------------------------
(* Claims *)

\* The request r has been answered at the step named by `step`.
EndedAt(r, step) == req[r].pc = "done" /\ req[r].at = step

\* The request r has just been verified, or was answered by the
\* verification: its signature header is still at hand.
Verified(r) == req[r].pc = "parse" \/ EndedAt(r, "verify")

StoredReqs == {r \in Reqs : req[r].pc = "done" /\ req[r].status = 201}

\* C1: in every state the store holds as many records as ingestion requests
\* have ended "stored" (201): a request that ends 403, 200 "ignored", 400 or
\* 500 adds no record, a request that ends 201 adds exactly one.
C1_RecordsAreStoredRequests ==
    Len(collection) = Cardinality(StoredReqs)

\* C1's case: one request was stored and another was rejected with 403.
C1_Witness ==
    /\ Len(collection) = 1
    /\ \E r \in Reqs : req[r].pc = "done" /\ req[r].status = 201
    /\ \E r \in Reqs : req[r].pc = "done" /\ req[r].status = 403

\* C2: the store is append-only: every step keeps every record of the store
\* in its place with its formatted and inserted_at, and a step that answers a
\* query leaves the store as it is.
C2_AppendOnly ==
    [][/\ Len(collection') >= Len(collection)
       /\ \A i \in 1..Len(collection) : collection'[i] = collection[i]
       /\ resp' # resp => collection' = collection]_vars

\* C2's case: a query was answered from a store that has grown twice.
C2_Witness ==
    /\ Len(collection) = 2
    /\ resp.status = 200
    /\ Len(resp.docs) = 2

\* The header is a verification failure in the sense of the specification:
\* a secret is set, the header is present, and it does not verify.
DoesNotVerify(r) ==
    /\ TokenSet(SECRET_TOKEN)
    /\ req[r].signature # None
    /\ verify_signature(SECRET_TOKEN, req[r].data, req[r].signature) # Ret(TRUE)

\* C3 (as claimed): with a secret set, a request whose signature header does
\* not verify ends with 403 at the verification, before the event type and
\* the payload are looked at, and nothing is written.
C3_BadSignatureIs403 ==
    \A r \in Reqs :
        (Verified(r) /\ DoesNotVerify(r))
            => (EndedAt(r, "verify") /\ req[r].status = 403 /\ collection = <<>>)

\* The header is malformed: it is not two non-empty parts around one "=".
Malformed(h) ==
    LET parts == Split(h, "=")
    IN  Len(parts) # 2 \/ parts[1] = <<>> \/ parts[2] = <<>>

\* C4 (as claimed): with a secret set, a malformed signature header (here
\* one that is not empty) is a verification failure: the request ends with
\* 403, verify_signature having returned False without raising.
C4_MalformedHeaderIs403 ==
    \A r \in Reqs :
        (/\ Verified(r)
         /\ TokenSet(SECRET_TOKEN)
         /\ HeaderSet(req[r].signature)
         /\ Malformed(req[r].signature[1]))
            => (EndedAt(r, "verify") /\ req[r].status = 403 /\ req[r].exc = "Forbidden")

\* C5: when the secret is unset (or empty) or the signature header is absent
\* (or empty), verification passes whatever the body and the header are, and
\* the request goes on to read the event type and the payload.
C5_SkippedVerificationPasses ==
    \A r \in Reqs :
        (Verified(r) /\ (~TokenSet(SECRET_TOKEN) \/ ~HeaderSet(req[r].signature)))
            => (/\ verify_signature(SECRET_TOKEN, req[r].data, req[r].signature) = Ret(TRUE)
                /\ req[r].pc = "parse"
                /\ req[r].status = 0)

\* C5's case: no secret is set and the request, whose header is the
\* malformed "sha1", is about to be parsed.
C5_Witness ==
    /\ SECRET_TOKEN = None
    /\ req[1].pc = "parse"
    /\ req[1].signature = Some(<<"sha1">>)

\* The header of r is "<name>=<H>" with H an ASCII text.
IsNameAndDigest(r) ==
    /\ HeaderSet(req[r].signature)
    /\ Len(Split(req[r].signature[1], "=")) = 2
    /\ IsAscii(Split(req[r].signature[1], "=")[2])

NameOf(r) == Concat(Split(req[r].signature[1], "=")[1])
DigestOf(r) == Concat(Split(req[r].signature[1], "=")[2])

PayloadOf(r) == get_json(req[r].data).v

\* The request r has been dispatched: it waits for the insert or was
\* answered by the dispatch or by the insert.
Dispatched(r) ==
    req[r].pc = "insert" \/ EndedAt(r, "dispatch") \/ EndedAt(r, "insert")

\* The JSON value at the path is a string.
HasStr(x, path) == GetPath(x, path).ok /\ GetPath(x, path).v.t = "str"

\* The characters are of the form YYYY-MM-DDTHH:MM:SSZ.
IsExactPattern(s) ==
    /\ Len(s) = 20
    /\ \A i \in {1, 2, 3, 4, 6, 7, 9, 10, 12, 13, 15, 16, 18, 19} : IsDigit(s[i])
    /\ s[5] = "-" /\ s[8] = "-" /\ s[11] = "T"
    /\ s[14] = ":" /\ s[17] = ":" /\ s[20] = "Z"

HasTimestamp(x, path) == HasStr(x, path) /\ IsExactPattern(GetPath(x, path).v.v)

\* The three recognised cases of the specification.
IsPush(r) == req[r].event_type = Some("push")

ActionIs(r, text) ==
    /\ req[r].event_type = Some("pull_request")
    /\ GetItem(PayloadOf(r), "action").ok
    /\ StrEq(GetItem(PayloadOf(r), "action").v, text)

IsOpened(r) == ActionIs(r, "opened")

IsMerged(r) ==
    /\ ActionIs(r, "closed")
    /\ GetPath(PayloadOf(r), <<"pull_request", "merged">>).ok
    /\ GetPath(PayloadOf(r), <<"pull_request", "merged">>).v = JBool(TRUE)

\* The required fields of the specification are there.
WellFormedPush(x) ==
    /\ HasStr(x, <<"pusher", "name">>)
    /\ HasStr(x, <<"ref">>)
    /\ HasTimestamp(x, <<"head_commit", "timestamp">>)

WellFormedPullRequest(x, when) ==
    /\ HasStr(x, <<"pull_request", "user", "login">>)
    /\ HasStr(x, <<"pull_request", "head", "ref">>)
    /\ HasStr(x, <<"pull_request", "base", "ref">>)
    /\ HasTimestamp(x, <<"pull_request", when>>)

MalformedPayload(r) ==
    \/ IsPush(r) /\ ~WellFormedPush(PayloadOf(r))
    \/ IsOpened(r) /\ ~WellFormedPullRequest(PayloadOf(r), "created_at")
    \/ IsMerged(r) /\ ~WellFormedPullRequest(PayloadOf(r), "merged_at")

\* C7 (as claimed): a verified request of a recognised case whose payload
\* lacks a required field, has null or a non-object on a required path, or
\* has a timestamp not of the form YYYY-MM-DDTHH:MM:SSZ ends with a 400-class
\* status, and nothing is written.
C7_MalformedPayloadIs4xx ==
    \A r \in Reqs :
        (Dispatched(r) /\ MalformedPayload(r))
            => (/\ req[r].pc = "done"
                /\ req[r].status >= 400 /\ req[r].status <= 499
                /\ collection = <<>>)

\* A case the specification ignores: an event type other than push and
\* pull_request, or a pull request whose action is neither "opened" nor
\* "closed" with merged == true.
Unmatched(r) ==
    \/ req[r].event_type \notin {Some("push"), Some("pull_request")}
    \/ /\ req[r].event_type = Some("pull_request")
       /\ GetItem(PayloadOf(r), "action").ok
       /\ GetItem(PayloadOf(r), "action").v.t = "str"
       /\ ~IsOpened(r)
       /\ ~IsMerged(r)

\* C8 (as claimed): a verified request of an unmatched case is answered 200
\* "ignored" and nothing is written, whatever else its payload holds or lacks.
C8_UnmatchedIsIgnored ==
    \A r \in Reqs :
        (Dispatched(r) /\ Unmatched(r))
            => (EndedAt(r, "dispatch") /\ req[r].status = 200 /\ collection = <<>>)

\* The n documents appended last, the last one first.
ReverseLast(coll, n) ==
    [i \in 1..Min(n, Len(coll)) |-> coll[Len(coll) + 1 - i]]

\* No two documents carry the same inserted_at.
NoTies(coll) ==
    \A i, j \in 1..Len(coll) : i # j => coll[i].inserted_at # coll[j].inserted_at

\* C9 (as claimed, for a store without equal inserted_at values): a query
\* answers with the min(50, size) summaries appended last, the one appended
\* last first.
C9_RecentIsReverseInsertion ==
    [][(resp' # resp /\ resp'.status = 200 /\ NoTies(collection))
          => (/\ Len(resp'.events) = Min(QueryLimit, Len(collection))
              /\ resp'.events = FormattedOf(ReverseLast(collection, QueryLimit)))]_vars

\* C10 (as claimed): of two returned records with the same inserted_at (and
\* different summaries, so that their order shows in the response), the one
\* inserted later comes first.
C10_TiesLaterFirst ==
    resp.status = 200 =>
        \A i, j \in 1..Len(resp.docs) :
            (/\ i < j
             /\ resp.docs[i].inserted_at = resp.docs[j].inserted_at
             /\ resp.events[i] # resp.events[j])
                => resp.docs[i]._id > resp.docs[j]._id

\* C11 (as claimed): the records of the store carry non-decreasing
\* inserted_at values in the order they were written: no record is written
\* with an inserted_at smaller than that of a record already there.
C11_InsertedAtNonDecreasing ==
    \A i, j \in 1..Len(collection) :
        i < j => collection[i].inserted_at <= collection[j].inserted_at

\* The formatted text is the summary of a push of the model.
IsPushSummary(text) ==
    \E b \in CoreBodies : push_branch(get_json(b).v) = Formatted(text)

\* C12 (as claimed): a query answered when the record written last is the
\* summary of a push (the push has ended "stored", and nothing was written
\* since) has that summary as its first element.
C12_StoredPushIsFirst ==
    [][(/\ resp' # resp
        /\ resp'.status = 200
        /\ collection # <<>>
        /\ IsPushSummary(collection[Len(collection)].formatted))
          => resp'.events[1] = collection[Len(collection)].formatted]_vars

\* The characters of the timestamp of r's push payload.
TimestampOf(r) == GetPath(PayloadOf(r), <<"head_commit", "timestamp">>).v.v

\* The numbers written in a timestamp of the form YYYY-MM-DDTHH:MM:SSZ.
YearIn(s) == NumAt(s, 1, 4)
MonthIn(s) == NumAt(s, 6, 2)
DayIn(s) == NumAt(s, 9, 2)
HourIn(s) == NumAt(s, 12, 2)
MinuteIn(s) == NumAt(s, 15, 2)

\* The request r is a well-formed push whose summary has been formatted.
PushFormatted(r) ==
    req[r].pc = "insert" /\ IsPush(r) /\ WellFormedPush(PayloadOf(r))

\* The summary of a push up to its timestamp.
PushPrefix(x) ==
    Quoted(PyStr(GetPath(x, <<"pusher", "name">>).v)) \o " pushed to "
    \o Quoted(LastSegment(GetItem(x, "ref").v).v) \o " on "

\* The suffix the specification gives the day d.
SuffixRule(d) ==
    IF d \in {11, 12, 13} THEN "th"
    ELSE IF d % 10 = 1 THEN "st"
    ELSE IF d % 10 = 2 THEN "nd"
    ELSE IF d % 10 = 3 THEN "rd"
    ELSE "th"

\* The summary of the push x with timestamp s, its day rendered by the
\* specification's rule.
SummaryByDayRule(x, s) ==
    PushPrefix(x) \o ToString(DayIn(s)) \o SuffixRule(DayIn(s)) \o " "
    \o MonthName[MonthIn(s)] \o " " \o ToString(YearIn(s)) \o " - "
    \o TimeText(strptime(s).v)

\* C13: the summary of a well-formed push renders the day d of its timestamp,
\* for every d in 1..31, without leading zero and followed by "th" when d is
\* 11, 12 or 13, otherwise by "st", "nd", "rd" when d mod 10 is 1, 2, 3, and
\* by "th" in every other case.
C13_OrdinalSuffix ==
    \A r \in Reqs :
        PushFormatted(r)
            => (/\ DayIn(TimestampOf(r)) \in Days
                /\ req[r].doc[1].formatted
                     = SummaryByDayRule(PayloadOf(r), TimestampOf(r)))

\* C13's case: a push of the 11th has been formatted.
C13_Witness ==
    /\ PushFormatted(1)
    /\ DayIn(TimestampOf(1)) = 11
    /\ req[1].data \in TimestampBodies

\* Two digits.
TwoDigits(n) == ToString(n \div 10) \o ToString(n % 10)

\* The time of day the specification gives hour h and minute m.
TimeRule(h, m) ==
    TwoDigits(IF h = 0 THEN 12 ELSE IF h <= 12 THEN h ELSE h - 12) \o ":"
    \o TwoDigits(m) \o " " \o (IF h < 12 THEN "AM" ELSE "PM") \o " UTC"

\* The summary of the push x with timestamp s: the day, month and year
\* written in s, and the time of day by the specification's rule.
SummaryByTimeRule(x, s) ==
    PushPrefix(x)
    \o DateText([day |-> DayIn(s), month |-> MonthIn(s), year |-> YearIn(s)],
                OrdinalSuffix(DayIn(s)))
    \o " - " \o TimeRule(HourIn(s), MinuteIn(s))

\* C14: the summary of a well-formed push renders the hour h (0..23) and the
\* minute m (0..59) of its timestamp as the two-digit hour of the 12-hour
\* clock (12 for 0, h up to 12, h - 12 beyond), the two-digit minute m, AM
\* when h < 12 and PM otherwise, then UTC; day, month and year are those
\* written in the timestamp (no shift of time zone).
C14_TwelveHourClock ==
    \A r \in Reqs :
        PushFormatted(r)
            => (/\ HourIn(TimestampOf(r)) \in Hours
                /\ MinuteIn(TimestampOf(r)) \in Minutes
                /\ req[r].doc[1].formatted
                     = SummaryByTimeRule(PayloadOf(r), TimestampOf(r)))

\* C14's case: a push of 23:59 on the last day of a month has been formatted.
C14_Witness ==
    /\ PushFormatted(1)
    /\ HourIn(TimestampOf(1)) = 23
    /\ MinuteIn(TimestampOf(1)) = 59
    /\ DayIn(TimestampOf(1)) = 31

\* The text is the complete summary of a request that has ended "stored".
IsStoredSummary(text) ==
    \E r \in StoredReqs : dispatch(req[r].event_type, PayloadOf(r)) = Formatted(text)

\* C15: every element of a query's answer is the formatted text of a record
\* of the store, and that text is the complete summary of a request whose
\* insert has ended: never the empty placeholder or the summary of a request
\* still in progress.
C15_NoTornRead ==
    resp.status = 200 =>
        \A i \in 1..Len(resp.events) :
            /\ \E k \in 1..Len(collection) : collection[k] = resp.docs[i]
            /\ resp.events[i] = resp.docs[i].formatted
            /\ resp.events[i] # ""
            /\ IsStoredSummary(resp.events[i])

\* C15's case: a query has answered with the one stored record while
\* another request holds its document, the summary still empty.
C15_Witness ==
    /\ resp.status = 200
    /\ Len(resp.events) = 1
    /\ Len(collection) = 1
    /\ \E r \in Reqs : req[r].pc = "dispatch" /\ req[r].doc[1].formatted = ""

\* The request r has ended at the insert without "stored": the store could
\* not complete the append.
AppendFailed(r) == EndedAt(r, "insert") /\ req[r].status # 201

\* C16: a step in which the store cannot complete a request's append ends
\* the request with a 500-class status and leaves the store as it was; the
\* request takes no step afterwards (no retry); a query answers with no more
\* records than requests have ended "stored"; and a step in which the store
\* cannot complete a read answers the query with a 500-class status and
\* leaves the store as it was.
C16_StorageErrors ==
    [][/\ \A r \in Reqs :
            (req[r].pc = "insert" /\ req'[r] # req[r] /\ req'[r].status # 201)
                => (/\ req'[r].pc = "done"
                    /\ req'[r].status \in 500..599
                    /\ collection' = collection)
       /\ \A r \in Reqs : AppendFailed(r) => req'[r] = req[r]
       /\ (resp' # resp /\ resp'.status = 200)
            => Len(resp'.events) <= Cardinality(StoredReqs)
       /\ (resp' # resp /\ resp'.status # 200)
            => (/\ resp'.status \in 500..599
                /\ resp'.events = <<>>
                /\ collection' = collection)]_vars

\* C16's case: an append has failed, a later query has answered from the
\* store with the one record of the other request.
C16_Witness ==
    /\ \E r \in Reqs : AppendFailed(r) /\ req[r].status = 500
    /\ resp.status = 200
    /\ Len(resp.events) = 1

RECURSIVE FinalSegment(_)
\* The text after the last "/" of the characters s (all of s without "/").
FinalSegment(s) ==
    IF \E i \in 1..Len(s) : s[i] = "/"
    THEN FinalSegment(Tail(s))
    ELSE Concat(s)

\* The text of the string at the path of x.
TextAt(x, path) == Concat(GetPath(x, path).v.v)

\* The summary the dispatch rules give a well-formed push.
PushRule(x) ==
    "\"" \o TextAt(x, <<"pusher", "name">>) \o "\" pushed to \""
    \o FinalSegment(GetItem(x, "ref").v.v) \o "\" on "
    \o format_timestamp(GetPath(x, <<"head_commit", "timestamp">>).v).v

\* The summary the dispatch rules give a well-formed pull request: `verb`
\* is the form and `when` the field of the timestamp.
PullRequestRule(x, verb, when) ==
    "\"" \o TextAt(x, <<"pull_request", "user", "login">>) \o "\" " \o verb
    \o " \"" \o TextAt(x, <<"pull_request", "head", "ref">>) \o "\" to \""
    \o TextAt(x, <<"pull_request", "base", "ref">>) \o "\" on "
    \o format_timestamp(GetPath(x, <<"pull_request", when>>).v).v

\* The request r has been dispatched to the insert with the summary text.
StoresSummary(r, text) ==
    \/ req[r].pc = "insert" /\ req[r].doc[1].formatted = text
    \/ EndedAt(r, "insert")

\* C17: a verified, well-formed request goes to the insert with the summary
\* of its case: a push (whatever action its payload carries) with the
\* "pushed to" form, the final "/"-segment of ref and head_commit.timestamp;
\* a pull request opened with the "submitted a pull request from" form and
\* created_at; a pull request closed with merged == true with the "merged
\* branch" form and merged_at.
C17_DispatchRules ==
    \A r \in Reqs :
        Dispatched(r) =>
            /\ (IsPush(r) /\ WellFormedPush(PayloadOf(r)))
                  => StoresSummary(r, PushRule(PayloadOf(r)))
            /\ (IsOpened(r) /\ WellFormedPullRequest(PayloadOf(r), "created_at"))
                  => StoresSummary(r, PullRequestRule(PayloadOf(r),
                                        "submitted a pull request from", "created_at"))
            /\ (IsMerged(r) /\ WellFormedPullRequest(PayloadOf(r), "merged_at"))
                  => StoresSummary(r, PullRequestRule(PayloadOf(r),
                                        "merged branch", "merged_at"))

\* C17's case: a pull request closed and merged, whose created_at and
\* merged_at differ, waits for the insert.
C17_Witness ==
    /\ req[1].pc = "insert"
    /\ IsMerged(1)
    /\ WellFormedPullRequest(PayloadOf(1), "merged_at")
    /\ GetPath(PayloadOf(1), <<"pull_request", "merged_at">>)
         # GetPath(PayloadOf(1), <<"pull_request", "created_at">>)

\* The request r has arrived and has not been answered.
InProgress(r) == req[r].pc \in {"parse", "dispatch", "insert"}

\* The statuses of the terminal outcomes: rejected for its signature,
\* ignored, stored, rejected for its body, server error.
Outcomes == {403, 200, 201, 400, 500}

\* C18: a request that has arrived is answered in the end, whatever the
\* other requests do; it is answered with one of the terminal outcomes, at
\* the step that ends it; once answered it takes no further step; a write
\* to the store is the step of a request not yet answered, which it ends
\* "stored" (a rejected request never reaches the store); and a query is
\* answered, with its result or a server error, in the one step it takes.
C18_OneTerminalOutcome ==
    /\ \A r \in Reqs : InProgress(r) ~> (req[r].pc = "done")
    /\ [](\A r \in Reqs : (req[r].status # 0)
                            <=> (req[r].pc = "done" /\ req[r].status \in Outcomes))
    /\ [][\A r \in Reqs : req[r].status # 0 => req'[r] = req[r]]_vars
    /\ [][Len(collection') > Len(collection)
            => \E q \in Reqs : /\ req[q].pc = "insert" /\ req[q].status = 0
                                /\ req'[q].status = 201]_vars
    /\ [][resp' # resp => resp'.status \in {200, 500}]_vars

\* C18's case: every request has been answered, one rejected for its
\* signature and one stored, and a query has been answered since the write.
C18_Witness ==
    /\ \A r \in Reqs : req[r].pc = "done"
    /\ \E r \in Reqs : req[r].status = 403
    /\ \E r \in Reqs : req[r].status = 201
    /\ resp.status = 200
    /\ Len(resp.events) = 1

\* The authors, branches and formatted timestamps the bodies written out
\* one by one can give ("None" is how a null name is formatted).
AuthorTexts == {"alice", "bob", "None"}
BranchTexts == {"main", "feature", "x"}
WhenTexts == {"1st April 2021 - 09:30 PM UTC", "11th April 2021 - 12:05 AM UTC",
              "22nd April 2021 - 01:00 PM UTC"}

\* The three forms of a summary.
PushForms ==
    {"\"" \o a \o "\" pushed to \"" \o b \o "\" on " \o w :
        a \in AuthorTexts, b \in BranchTexts, w \in WhenTexts}

OpenedForms ==
    {"\"" \o a \o "\" submitted a pull request from \"" \o f \o "\" to \""
     \o b \o "\" on " \o w :
        a \in AuthorTexts, f \in BranchTexts, b \in BranchTexts, w \in WhenTexts}

MergedForms ==
    {"\"" \o a \o "\" merged branch \"" \o f \o "\" to \"" \o b \o "\" on " \o w :
        a \in AuthorTexts, f \in BranchTexts, b \in BranchTexts, w \in WhenTexts}

\* C19: in every state every record of the store has a formatted text that
\* is not empty and is of one of the three forms of a summary: the empty
\* placeholder of lines 104-107 is never stored.
C19_NoPlaceholderStored ==
    \A k \in 1..Len(collection) :
        /\ collection[k].formatted # ""
        /\ collection[k].formatted \in PushForms \cup OpenedForms \cup MergedForms

\* C19's case: a merged pull request has been stored.
C19_Witness ==
    /\ Len(collection) = 1
    /\ req[1].status = 201
    /\ IsMerged(1)
    /\ collection[1].formatted \in MergedForms

===========================================================================
